---------------------------- MODULE Spec2Model ----------------------------
(***************************************************************************)
(* BnpC driver (run_BnpC.py): argument parsing, model selection, the       *)
(* concentration prior, and the hand-over to the MCMC sampler.             *)
(*                                                                         *)
(* Numbers.  Every float option is kept in hundredths: the integer v       *)
(* stands for v / One.  A value that may hold a square root (the default   *)
(* concentration prior) is the pair [rad, off], standing for               *)
(* sqrt(rad) + off / One, so that its sign is decided exactly.             *)
(*                                                                         *)
(* libs.MCMC, libs.CRP, libs.CRP_learning_errors and libs.dpmmIO are not   *)
(* part of the sources; what the driver calls in them is modelled from     *)
(* the design document (section numbers are given at each definition).     *)
(***************************************************************************)
EXTENDS Integers, Sequences, FiniteSets, TLC

VARIABLES
    argv,       \* per run: the command line, option name -> raw value
    annot,      \* the --ctypes annotation file: which columns it has, the cancer count
    ncells,     \* data.shape[0], the number of cells of the data matrix
    fa_file,    \* the content of the --fixed_assignment file: cell -> label
    pc,         \* per run: the driver's position
    args,       \* per run: <<>> or <<the namespace parse_args returned>>
    sampler,    \* per run: <<>> or <<what main constructed: model, mcmc, run_var>>
    pool,       \* per run: <<>> or <<what mcmc.run was called with>>
    chains,     \* per run: the chains of the pool, a sequence of chain records
    results,    \* per run: <<>> or <<chain_seeds and results collected by main>>
    clock,      \* the wall clock, in minutes
    stream      \* the random streams: <<chain seed, draw index>> -> draw

vars == <<argv, annot, ncells, fa_file, pc, args, sampler, pool, chains,
          results, clock, stream>>

\* ------------------------------------------------------------------ bounds
NumCells == 3        \* cells of the data matrix in the sampler runs
MaxSteps == 2        \* cap on the steps one chain takes
MaxChains == 2       \* largest --chains value tried
MaxClock == 1        \* the wall clock stops ticking here
NumVals == 2         \* grid points a sampled real value is drawn from
NumStreams == 3      \* random generators tried where the streams are given

\* ------------------------------------------------------- program constants
One == 100           \* the float 1 of check_percent / check_ratio
PSRFMax == 150       \* the float 1.5 of check_PSRF_cutoff
SqrtShift == 5       \* the 5 of np.sqrt(cancer_cells_total) - 5

Runs == {1, 2}

\* ----------------------------------------------------------------- numbers
Num(v) == [rad |-> 0, off |-> v]
Sqrt(n) == [rad |-> n, off |-> 0]
Minus(x, k) == [rad |-> x.rad, off |-> x.off - k * One]
\* sqrt(rad) + off/One > 0
Positive(x) ==
    IF x.off >= 0 THEN x.rad > 0 \/ x.off > 0
    ELSE x.rad * One * One > x.off * x.off

\* --------------------------------------------------------------- parse_args
RatioOpts == {"falseNegative_mean", "falseNegative_std",
              "falsePositive_mean", "falsePositive_std"}
PercentOpts == {"burn_in", "conc_update_prob", "error_update_prob",
                "split_merge_prob", "smr_split", "smr_merge"}
FloatOpts == {"falseNegative", "falsePositive", "DPa_a", "DPa_b"}
IntOpts == {"chains", "steps", "runtime", "seed", "split_merge_steps"}
FlagOpts == {"debug", "fixed_assignment"}
Opts == RatioOpts \cup PercentOpts \cup FloatOpts \cup IntOpts \cup FlagOpts
          \cup {"lugsail"}

Default(o) ==
    CASE o = "falseNegative" -> -One
      [] o = "falsePositive" -> -One
      [] o = "falseNegative_mean" -> 20
      [] o = "falseNegative_std" -> 10
      [] o = "falsePositive_mean" -> 1
      [] o = "falsePositive_std" -> 1
      [] o = "DPa_a" -> -One
      [] o = "DPa_b" -> -One
      [] o = "fixed_assignment" -> 0
      [] o = "chains" -> 1
      [] o = "steps" -> 5000
      [] o = "runtime" -> -1
      [] o = "lugsail" -> -One
      [] o = "burn_in" -> 33
      [] o = "conc_update_prob" -> 25
      [] o = "error_update_prob" -> 25
      [] o = "split_merge_prob" -> 33
      [] o = "split_merge_steps" -> 3
      [] o = "smr_split" -> 75
      [] o = "smr_merge" -> 25
      [] o = "seed" -> -1
      [] o = "debug" -> 0

Accept(v) == [ok |-> TRUE, val |-> v]
Reject(v) == [ok |-> FALSE, val |-> v]

check_ratio(val) ==
    IF val <= 0 \/ val >= One THEN Reject(val) ELSE Accept(val)

check_percent(val) ==
    IF val < 0 \/ val > One THEN Reject(val) ELSE Accept(val)

check_PSRF_cutoff(val) ==
    IF val < One \/ val > PSRFMax THEN Reject(val) ELSE Accept(val)

\* The type= callable argparse applies to a supplied option string.
Convert(o, val) ==
    CASE o \in RatioOpts -> check_ratio(val)
      [] o \in PercentOpts -> check_percent(val)
      [] o = "lugsail" -> check_PSRF_cutoff(val)
      [] OTHER -> Accept(val)

\* Namespace with the convergence diagnostic switched on by default.
Namespace_lugsail_on(av) ==
    [o \in Opts |-> IF o \in DOMAIN av THEN Convert(o, av[o]).val
                    ELSE IF o = "lugsail" THEN 105 ELSE Default(o)]

\* parser.parse_args(): a supplied option goes through its type=, an
\* option left out takes its default as it is.
Namespace(av) ==
    [o \in Opts |-> IF o \in DOMAIN av THEN Convert(o, av[o]).val ELSE Default(o)]

ArgvAccepted(av) == \A o \in DOMAIN av : Convert(o, av[o]).ok

parse_args(r) ==
    /\ pc[r] = "start"
    /\ IF ArgvAccepted(argv[r])
       THEN /\ args' = [args EXCEPT ![r] = <<Namespace(argv[r])>>]
            /\ pc' = [pc EXCEPT ![r] = "parsed"]
       ELSE /\ args' = args
            /\ pc' = [pc EXCEPT ![r] = "rejected"]
    /\ UNCHANGED <<argv, annot, ncells, fa_file, sampler, pool, chains,
                   results, clock, stream>>

\* --------------------------------------------------------------------- main
\* DPAlphaPrior without the except KeyError clause of line 280.
DPAlphaPrior_uncaught(a, an, n) ==
    IF a.DPa_a < 0 \/ a.DPa_b < 0
    THEN IF ~an.corrected
         THEN [ok |-> FALSE, a |-> Sqrt(n), b |-> Num(One)]
         ELSE [ok |-> TRUE, a |-> Minus(Sqrt(an.cancer), SqrtShift), b |-> Num(One)]
    ELSE [ok |-> TRUE, a |-> Num(a.DPa_a), b |-> Num(a.DPa_b)]

\* Lines 276-286: the Gamma(a, b) prior of the concentration parameter.
\* ok = FALSE stands for an exception leaving main.
DPAlphaPrior(a, an, n) ==
    IF a.DPa_a < 0 \/ a.DPa_b < 0
    THEN IF ~an.corrected
         THEN [ok |-> TRUE, a |-> Sqrt(n), b |-> Num(One)]
         ELSE [ok |-> TRUE, a |-> Minus(Sqrt(an.cancer), SqrtShift), b |-> Num(One)]
    ELSE [ok |-> TRUE, a |-> Num(a.DPa_a), b |-> Num(a.DPa_b)]

\* Line 288: which model class is constructed.
FixedErrors(a) == a.falsePositive >= 0 /\ a.falseNegative >= 0

\* ErrorUpdateProb without the assignment of line 289.
ErrorUpdateProb_unforced(a) == a.error_update_prob

\* Lines 288-289 and 308: the error_prob handed to MCMC.
ErrorUpdateProb(a) ==
    IF FixedErrors(a) THEN 0 ELSE a.error_update_prob

\* Lines 290-301: the model object.
BuildModel(a, prior) ==
    IF FixedErrors(a)
    THEN [kind |-> "CRP", DP_alpha |-> prior,
          errors |-> <<a.falseNegative, a.falsePositive>>,
          priors |-> <<>>]
    ELSE [kind |-> "CRP_errors_learning", DP_alpha |-> prior,
          errors |-> <<>>,
          priors |-> <<a.falsePositive_mean, a.falsePositive_std,
                       a.falseNegative_mean, a.falseNegative_std>>]

\* Lines 306-310: the MCMC object.
BuildMCMC(a) ==
    [sm_prob |-> a.split_merge_prob, dpa_prob |-> a.conc_update_prob,
     error_prob |-> ErrorUpdateProb(a),
     sm_ratios |-> <<a.smr_split, a.smr_merge>>,
     sm_steps |-> a.split_merge_steps]

\* io._get_mcmc_termination (design 4.5, 4.7, 6): the runtime budget
\* replaces the step count when configured; the cutoff and the burn-in
\* fraction travel with it.
get_mcmc_termination(a, now) ==
    [mode |-> IF a.runtime > 0 THEN "runtime" ELSE "steps",
     budget |-> IF a.runtime > 0 THEN now + a.runtime ELSE a.steps,
     burn_in |-> a.burn_in,
     lugsail |-> a.lugsail]

\* Lines 252-315.
main_setup(r) ==
    /\ pc[r] = "parsed"
    /\ LET a == args[r][1]
           prior == DPAlphaPrior(a, annot, ncells)
       IN IF ~annot.core \/ ~prior.ok
          THEN /\ pc' = [pc EXCEPT ![r] = "failed"]
               /\ sampler' = sampler
               /\ args' = args
          ELSE /\ pc' = [pc EXCEPT ![r] = "ready"]
               /\ args' = [args EXCEPT ![r][1].error_update_prob = ErrorUpdateProb(a)]
               /\ sampler' = [sampler EXCEPT ![r] =
                     <<[model |-> BuildModel(a, [a |-> prior.a, b |-> prior.b]),
                        mcmc |-> BuildMCMC(a),
                        run_var |-> get_mcmc_termination(a, clock)]>>]
    /\ UNCHANGED <<argv, annot, ncells, fa_file, pool, chains,
                   results, clock, stream>>

\* NumChains without the override of lines 317-318.
NumChains_configured(a) == a.chains

\* Lines 317-318: debug mode runs a single chain.
NumChains(a) == IF a.debug = 1 THEN 1 ELSE a.chains

\* RunArgs with the fixed assignment left out of the call.
RunArgs_no_assignment(a, run_var) ==
    [run_var |-> run_var, seed |-> a.seed, chains |-> NumChains(a),
     fixed_assignment |-> 0, debug |-> a.debug]

\* RunArgs with the seed left out of the call (mcmc.run's own default).
RunArgs_no_seed(a, run_var) ==
    [run_var |-> run_var, seed |-> -1, chains |-> NumChains(a),
     fixed_assignment |-> a.fixed_assignment, debug |-> a.debug]

\* Lines 320-323: the arguments of mcmc.run.
RunArgs(a, run_var) ==
    [run_var |-> run_var, seed |-> a.seed, chains |-> NumChains(a),
     fixed_assignment |-> a.fixed_assignment, debug |-> a.debug]

\* ------------------------------------------------------- ClusterState (3, 4.2)
\* A ClusterState is [z, cl]: z maps a cell to its cluster id (0 while the
\* cell is taken out), cl maps each occupied id to its size n and its
\* parameter theta (one site).
Max(S) == CHOOSE k \in S : \A m \in S : m <= k
Min(S) == CHOOSE k \in S : \A m \in S : k <= m
NthId(S, j) == CHOOSE k \in S : Cardinality({m \in S : m < k}) = j
FreshId(cl) == IF DOMAIN cl = {} THEN 1 ELSE Max(DOMAIN cl) + 1

\* The values a sampled probability / a sampled alpha is drawn from.
Grid(v) == (v * One) \div (NumVals - 1)
AlphaOf(v) == ((v + 1) * One) \div NumVals

\* Remove that keeps a cluster it has emptied.
Remove_keep_empty(st, c) ==
    [z |-> [st.z EXCEPT ![c] = 0],
     cl |-> [st.cl EXCEPT ![st.z[c]].n = @ - 1]]

\* 4.2: take the cell out; a cluster left empty is deleted.
Remove(st, c) ==
    LET k == st.z[c] IN
    [z |-> [st.z EXCEPT ![c] = 0],
     cl |-> IF st.cl[k].n = 1
            THEN [j \in DOMAIN st.cl \ {k} |-> st.cl[j]]
            ELSE [st.cl EXCEPT ![k].n = @ - 1]]

Insert(st, c, k, th) ==
    [z |-> [st.z EXCEPT ![c] = k],
     cl |-> IF k \in DOMAIN st.cl
            THEN [st.cl EXCEPT ![k].n = @ + 1]
            ELSE [j \in DOMAIN st.cl \cup {k} |->
                    IF j = k THEN [n |-> 1, theta |-> th] ELSE st.cl[j]]]

\* 4.2: the categorical draw over the occupied clusters and one new one.
Seat(st, c, d) ==
    LET K == Cardinality(DOMAIN st.cl)
        j == d.pick[c]
    IN IF j < K
       THEN Insert(st, c, NthId(DOMAIN st.cl, j), 0)
       ELSE Insert(st, c, FreshId(st.cl), Grid(d.val))

RECURSIVE Sweep(_, _, _, _)
Sweep(st, c, n, d) ==
    IF c > n THEN st ELSE Sweep(Seat(Remove(st, c), c, d), c + 1, n, d)

\* 4.2, 3: ids are compacted to 1..K after every sweep.
Compact(st) ==
    [z |-> [c \in DOMAIN st.z |-> Cardinality({m \in DOMAIN st.cl : m <= st.z[c]})],
     cl |-> [j \in 1..Cardinality(DOMAIN st.cl) |-> st.cl[NthId(DOMAIN st.cl, j - 1)]]]

GibbsSweep(st, n, d) == Compact(Sweep(st, 1, n, d))

\* 3: the random CRP draw a chain starts from.
RECURSIVE SeatAll(_, _, _, _)
SeatAll(st, c, n, d) ==
    IF c > n THEN st ELSE SeatAll(Seat(st, c, d), c + 1, n, d)
RandomStart(n, d) ==
    SeatAll([z |-> [c \in 1..n |-> 0], cl |-> <<>>], 1, n, d)

\* 3, 6: the start from a fixed-assignment file, labels kept as given.
FixedStart(labels, d) ==
    LET used == {labels[c] : c \in DOMAIN labels} IN
    [z |-> labels,
     cl |-> [k \in used |->
               [n |-> Cardinality({c \in DOMAIN labels : labels[c] = k}),
                theta |-> Grid(d.val)]]]

\* 4.3: merge two distinct occupied clusters.
MergeProposal(st, n, d) ==
    LET ids == DOMAIN st.cl
        K == Cardinality(ids)
    IN IF K < 2 THEN st
       ELSE LET i == NthId(ids, d.pick[1] % K)
                j == NthId(ids \ {i}, d.pick[n] % (K - 1))
            IN [z |-> [c \in DOMAIN st.z |-> IF st.z[c] = j THEN i ELSE st.z[c]],
                cl |-> [k \in ids \ {j} |->
                          IF k = i
                          THEN [n |-> st.cl[i].n + st.cl[j].n, theta |-> Grid(d.val)]
                          ELSE st.cl[k]]]

\* 4.3: split one cluster of two or more members; the two anchors go to
\* different sides, the restricted sub-steps place the other members.
SplitProposal(st, d) ==
    LET big == {k \in DOMAIN st.cl : st.cl[k].n >= 2} IN
    IF big = {} THEN st
    ELSE LET k == NthId(big, d.pick[1] % Cardinality(big))
             members == {c \in DOMAIN st.z : st.z[c] = k}
             stay == Min(members)
             go == Max(members)
             moved == {go} \cup {c \in members \ {stay, go} : d.pick[c] % 2 = 1}
             f == FreshId(st.cl)
         IN [z |-> [c \in DOMAIN st.z |-> IF c \in moved THEN f ELSE st.z[c]],
             cl |-> [j \in DOMAIN st.cl \cup {f} |->
                       IF j = f THEN [n |-> Cardinality(moved), theta |-> Grid(d.val)]
                       ELSE IF j = k THEN [st.cl[k] EXCEPT !.n = @ - Cardinality(moved)]
                       ELSE st.cl[j]]]

\* 4.3: the move is chosen by the configured ratio; an accepted proposal
\* replaces the state, a rejected one leaves it unchanged.
SplitMergeMove(st, n, d, m) ==
    LET move == IF m.sm_ratios[1] = 0 /\ m.sm_ratios[2] = 0 THEN "none"
                ELSE IF m.sm_ratios[1] = 0 THEN "merge"
                ELSE IF m.sm_ratios[2] = 0 THEN "split"
                ELSE IF d.val = 0 THEN "split" ELSE "merge"
    IN IF ~d.acc \/ move = "none" THEN st
       ELSE IF move = "merge" THEN Compact(MergeProposal(st, n, d))
       ELSE Compact(SplitProposal(st, d))

\* 3, 4.5: with a fixed assignment only theta is resampled.
RefreshTheta(st, d) ==
    [z |-> st.z,
     cl |-> [k \in DOMAIN st.cl |->
               [st.cl[k] EXCEPT !.theta = Grid((d.val + k) % NumVals)]]]

\* ------------------------------------------------------------- Chain (4.5)
Kinds == {"gibbs", "split_merge", "conc_update", "error_update"}

\* 4.5: the weighted choice among the actions; an action of probability 0
\* is never chosen.
Select(kind, m) ==
    LET enabled ==
          CASE kind = "gibbs" -> m.sm_prob < One
            [] kind = "split_merge" -> m.sm_prob > 0
            [] kind = "conc_update" -> m.dpa_prob > 0
            [] kind = "error_update" -> m.error_prob > 0
    IN IF enabled THEN kind
       ELSE IF m.sm_prob < One THEN "gibbs" ELSE "split_merge"

AllDraws(n) ==
    [kind : Kinds, pick : [1..n -> 0..(n - 1)], val : 0..(NumVals - 1),
     acc : BOOLEAN]

\* The draws a chain may see at a position of its stream: the stream's
\* value where the stream is given, any draw otherwise.
Draws(seed, idx, n) ==
    IF <<seed, idx>> \in DOMAIN stream THEN {stream[<<seed, idx>>]}
    ELSE AllDraws(n)

NewChain(seed) ==
    [status |-> "INITIALIZING", seed |-> seed, step |-> 0,
     z |-> <<>>, cl |-> <<>>, alpha |-> 0, FN |-> 0, FP |-> 0,
     trace |-> <<>>, stop |-> "", stop_at |-> 0]

\* 3: the snapshot appended to the trace (by: the action that made it).
ChainState(c, by) ==
    [by |-> by, z |-> c.z, theta |-> [k \in DOMAIN c.cl |-> c.cl[k].theta],
     alpha |-> c.alpha, FN |-> c.FN, FP |-> c.FP]

\* 4.5 INITIALIZING: the starting ClusterState and the error rates.
Started(c, d, s, p, labels, n) ==
    LET st == IF p.fixed_assignment = 1 THEN FixedStart(labels, d)
              ELSE RandomStart(n, d)
    IN [c EXCEPT !.status = "RUNNING", !.z = st.z, !.cl = st.cl,
                 !.alpha = AlphaOf(d.val),
                 !.FN = IF s.model.kind = "CRP" THEN s.model.errors[1]
                        ELSE s.model.priors[3],
                 !.FP = IF s.model.kind = "CRP" THEN s.model.errors[2]
                        ELSE s.model.priors[1]]

\* 4.5 RUNNING: one action applied, the resulting state recorded.
Stepped(c, d, s, p, n) ==
    LET kind == Select(d.kind, s.mcmc)
        st == [z |-> c.z, cl |-> c.cl]
        st2 == IF kind \notin {"gibbs", "split_merge"} THEN st
               ELSE IF p.fixed_assignment = 1 THEN RefreshTheta(st, d)
               ELSE IF kind = "gibbs" THEN GibbsSweep(st, n, d)
               ELSE SplitMergeMove(st, n, d, s.mcmc)
        c2 == [c EXCEPT !.step = @ + 1, !.z = st2.z, !.cl = st2.cl,
                        !.alpha = IF kind = "conc_update" THEN AlphaOf(d.val) ELSE @,
                        !.FN = IF kind = "error_update" THEN Grid(d.val) ELSE @,
                        !.FP = IF kind = "error_update"
                               THEN Grid(d.pick[1] % NumVals) ELSE @]
    IN [c2 EXCEPT !.trace = Append(@, ChainState(c2, kind))]

\* 4.5: the budget is the runtime when configured, the step count otherwise.
BudgetExhausted(c, run_var, now) ==
    IF run_var.mode = "runtime" THEN now >= run_var.budget
    ELSE c.step >= run_var.budget

\* ---------------------------------------------------------- ChainPool (4.6)
SeedVals == 0..1
DeriveSeed(g, i) == g + i - 1

\* Lines 317-323 and 4.6: mcmc.run starts; every chain is INITIALIZING.
main_run(r) ==
    /\ pc[r] = "ready"
    /\ LET ra == RunArgs(args[r][1], sampler[r][1].run_var) IN
       \E g \in (IF ra.seed >= 0 THEN {ra.seed} ELSE SeedVals) :
          /\ pool' = [pool EXCEPT ![r] =
                <<[run_var |-> ra.run_var, seed |-> ra.seed, n |-> ra.chains,
                   fixed_assignment |-> ra.fixed_assignment, debug |-> ra.debug,
                   seeds |-> [i \in 1..ra.chains |-> DeriveSeed(g, i)],
                   converged |-> FALSE]>>]
          /\ chains' = [chains EXCEPT ![r] =
                [i \in 1..ra.chains |-> NewChain(DeriveSeed(g, i))]]
    /\ args' = [args EXCEPT ![r][1].chains = NumChains(args[r][1])]
    /\ pc' = [pc EXCEPT ![r] = "running"]
    /\ UNCHANGED <<argv, annot, ncells, fa_file, sampler, results,
                   clock, stream>>

chain_init(r, i) ==
    /\ pc[r] = "running"
    /\ chains[r][i].status = "INITIALIZING"
    /\ \E d \in Draws(chains[r][i].seed, 0, ncells) :
          chains' = [chains EXCEPT ![r][i] =
              Started(@, d, sampler[r][1], pool[r][1], fa_file, ncells)]
    /\ UNCHANGED <<argv, annot, ncells, fa_file, pc, args, sampler, pool,
                   results, clock, stream>>

chain_step(r, i) ==
    /\ pc[r] = "running"
    /\ chains[r][i].status = "RUNNING"
    /\ chains[r][i].step < MaxSteps
    /\ ~pool[r][1].converged
    /\ ~BudgetExhausted(chains[r][i], pool[r][1].run_var, clock)
    /\ \E d \in Draws(chains[r][i].seed, chains[r][i].step + 1, ncells) :
          chains' = [chains EXCEPT ![r][i] =
              Stepped(@, d, sampler[r][1], pool[r][1], ncells)]
    /\ UNCHANGED <<argv, annot, ncells, fa_file, pc, args, sampler, pool,
                   results, clock, stream>>

\* 4.5, 5: between steps the chain sees its budget spent or the signal.
chain_terminate(r, i) ==
    /\ pc[r] = "running"
    /\ chains[r][i].status = "RUNNING"
    /\ \/ pool[r][1].converged
       \/ BudgetExhausted(chains[r][i], pool[r][1].run_var, clock)
    /\ chains' = [chains EXCEPT ![r][i] =
          [chains[r][i] EXCEPT
              !.status = "TERMINATED",
              !.stop = IF BudgetExhausted(chains[r][i], pool[r][1].run_var, clock)
                       THEN pool[r][1].run_var.mode ELSE "converged",
              !.stop_at = clock]]
    /\ UNCHANGED <<argv, annot, ncells, fa_file, pc, args, sampler, pool,
                   results, clock, stream>>

\* 4.7: samples left after the burn-in fraction is discarded.
PostBurnIn(trace, burn_in) == Len(trace) - (Len(trace) * burn_in) \div One

\* 4.7: the diagnostic falls below the cutoff.  The PSRF compares the
\* spread between chains with the spread within them; what is kept of it
\* here is that it is a function of the recorded samples which is small
\* when the chains agree: the latest samples hold equally many clusters.
PSRFBelowCutoff(cs) ==
    \A i, j \in DOMAIN cs :
        Cardinality(DOMAIN cs[i].trace[Len(cs[i].trace)].theta)
          = Cardinality(DOMAIN cs[j].trace[Len(cs[j].trace)].theta)

\* 4.7, 5: the periodic check; deferred until every chain has samples.
convergence_check(r) ==
    /\ pc[r] = "running"
    /\ pool[r][1].run_var.lugsail > 0
    /\ ~pool[r][1].converged
    /\ \A i \in DOMAIN chains[r] :
          /\ chains[r][i].status = "RUNNING"
          /\ PostBurnIn(chains[r][i].trace, pool[r][1].run_var.burn_in) >= 1
    /\ PSRFBelowCutoff(chains[r])
    /\ pool' = [pool EXCEPT ![r][1].converged = TRUE]
    /\ UNCHANGED <<argv, annot, ncells, fa_file, pc, args, sampler, chains,
                   results, clock, stream>>

\* Lines 325-326: seeds and results are collected once mcmc.run returns.
main_collect(r) ==
    /\ pc[r] = "running"
    /\ \A i \in DOMAIN chains[r] : chains[r][i].status = "TERMINATED"
    /\ results' = [results EXCEPT ![r] =
          <<[chain_seeds |-> pool[r][1].seeds,
             traces |-> [i \in DOMAIN chains[r] |-> chains[r][i].trace],
             assignment |-> [i \in DOMAIN chains[r] |-> chains[r][i].z]]>>]
    /\ pc' = [pc EXCEPT ![r] = "done"]
    /\ UNCHANGED <<argv, annot, ncells, fa_file, args, sampler, pool, chains,
                   clock, stream>>

\* The wall clock; only a chain under a runtime budget reads it (4.5), so
\* it is let run only while such a chain runs.
tick ==
    /\ clock < MaxClock
    /\ \E r \in Runs : pc[r] = "running" /\ pool[r][1].run_var.mode = "runtime"
    /\ clock' = clock + 1
    /\ UNCHANGED <<argv, annot, ncells, fa_file, pc, args, sampler, pool,
                   chains, results, stream>>

\* ------------------------------------------------------------------- inputs
EmptyArgv == [o \in {} |-> 0]
Merge(f, g) ==
    [o \in DOMAIN f \cup DOMAIN g |-> IF o \in DOMAIN g THEN g[o] ELSE f[o]]
Pair(o1, S1, o2, S2) ==
    {[o \in {o1, o2} |-> IF o = o1 THEN v1 ELSE v2] : v1 \in S1, v2 \in S2}

RawVals(o) ==
    CASE o \in RatioOpts -> {0, 50, One}
      [] o \in PercentOpts -> {-50, 0, 50, One, PSRFMax}
      [] o = "lugsail" -> {50, One, 105, PSRFMax, 200}
      [] o \in FloatOpts -> {-50, 10, PSRFMax}
      [] o = "chains" -> 1..MaxChains
      [] o = "steps" -> 1..MaxSteps
      [] o = "runtime" -> {-1, 1, MaxClock}
      [] o = "seed" -> {-1, 0, 1}
      [] o = "split_merge_steps" -> {1, 3}
      [] o \in FlagOpts -> {1}

\* A command line supplies at most two groups of options; an option pair
\* (nargs=2) counts as one group.
ErrBlock ==
    Pair("falseNegative", RawVals("falseNegative"),
         "falsePositive", RawVals("falsePositive"))
    \cup {[o \in {"falseNegative"} |-> v] : v \in RawVals("falseNegative")}
DPaBlock == Pair("DPa_a", {-50, 0, 200}, "DPa_b", {-50, 0, One})
SmrBlock == Pair("smr_split", {50, PSRFMax}, "smr_merge", {-50, 50})
ScalarOpts == Opts \ {"falseNegative", "falsePositive", "DPa_a", "DPa_b",
                      "smr_split", "smr_merge"}
ScalarBlock ==
    UNION {{[p \in {o} |-> v] : v \in RawVals(o)} : o \in ScalarOpts}
Blocks == {EmptyArgv} \cup ErrBlock \cup DPaBlock \cup SmrBlock \cup ScalarBlock

DriverArgv == {Merge(b1, b2) : b1 \in Blocks, b2 \in Blocks}

CancerCounts == {0, 16, 36}
Annotations ==
    {[core |-> c, corrected |-> k, cancer |-> n] :
        c \in BOOLEAN, k \in BOOLEAN, n \in CancerCounts}
ValidAnnot(an, n) ==
    /\ an.cancer <= n
    /\ ~an.corrected => an.cancer = 0

Idle == [r \in Runs |-> <<>>]

InitDriver ==
    /\ argv \in [Runs -> DriverArgv]
    /\ argv[2] = EmptyArgv
    /\ ncells \in {NumCells, 36}
    /\ annot \in {an \in Annotations : ValidAnnot(an, ncells)}
    /\ fa_file = [c \in 1..ncells |-> 1]
    /\ pc = [r \in Runs |-> IF r = 1 THEN "start" ELSE "off"]
    /\ args = Idle
    /\ sampler = Idle
    /\ pool = Idle
    /\ chains = Idle
    /\ results = Idle
    /\ clock = 0
    /\ stream = <<>>

NextDriver == \E r \in Runs : parse_args(r) \/ main_setup(r)

SpecDriver == InitDriver /\ [][NextDriver]_vars

\* ---------------------------------------------------------- sampler runs
Single(o, S) == {[p \in {o} |-> v] : v \in S}
Labelings(n) == [1..n -> 1..n]

\* The streams of a run whose draws are fixed functions of the chain seed
\* (5: each chain owns an RNG seeded from the global seed and its index).
\* NumStreams generators are tried.
SeedKeys == 0..(Max(SeedVals) + MaxChains)
KindAt(k) ==
    CASE k % 4 = 0 -> "gibbs" [] k % 4 = 1 -> "split_merge"
      [] k % 4 = 2 -> "conc_update" [] OTHER -> "error_update"
DrawAt(t, seed, idx, n) ==
    [kind |-> KindAt(t + seed + idx),
     pick |-> [c \in 1..n |-> (t + seed * c + idx + c) % n],
     val |-> (t + seed + idx) % NumVals,
     acc |-> (t + idx) % 2 = 0]
StreamTable(t, n) ==
    [key \in SeedKeys \X (0..MaxSteps) |-> DrawAt(t, key[1], key[2], n)]
StreamTables(n) == {StreamTable(t, n) : t \in 0..(NumStreams - 1)}

\* One run.  With a single chain the streams are not given and the chain
\* sees every draw; with several chains the streams are given.
RunArgv ==
    {Merge(Merge(b0, b1), b2) :
        b0 \in Single("steps", 1..MaxSteps),
        b1 \in {EmptyArgv} \cup Single("runtime", {1}) \cup Single("lugsail", {105}),
        b2 \in {EmptyArgv}
               \cup Pair("falseNegative", {10, PSRFMax}, "falsePositive", {10})
               \cup Single("falseNegative", {10})
               \cup Single("fixed_assignment", {1})
               \cup Single("split_merge_prob", {One})
               \cup Single("chains", {MaxChains})}

Init ==
    /\ argv \in [Runs -> RunArgv \cup {EmptyArgv}]
    /\ argv[1] # EmptyArgv
    /\ argv[2] = EmptyArgv
    /\ ncells = NumCells
    /\ annot = [core |-> TRUE, corrected |-> FALSE, cancer |-> 0]
    /\ fa_file \in Labelings(ncells)
    /\ "fixed_assignment" \notin DOMAIN argv[1] => fa_file = [c \in 1..ncells |-> 1]
    /\ pc = [r \in Runs |-> IF r = 1 THEN "start" ELSE "off"]
    /\ args = Idle
    /\ sampler = Idle
    /\ pool = Idle
    /\ chains = Idle
    /\ results = Idle
    /\ clock = 0
    /\ stream \in {<<>>} \cup StreamTables(ncells)
    /\ stream = <<>> <=> "chains" \notin DOMAIN argv[1]

Next ==
    \/ \E r \in Runs : parse_args(r)
    \/ \E r \in Runs : main_setup(r)
    \/ \E r \in Runs : main_run(r)
    \/ \E r \in Runs : \E i \in DOMAIN chains[r] : chain_init(r, i)
    \/ \E r \in Runs : \E i \in DOMAIN chains[r] : chain_step(r, i)
    \/ \E r \in Runs : \E i \in DOMAIN chains[r] : chain_terminate(r, i)
    \/ \E r \in Runs : convergence_check(r)
    \/ \E r \in Runs : main_collect(r)
    \/ tick

Spec == Init /\ [][Next]_vars


\* ------------------------------------------------------------ two runs
\* Two runs of the driver on the same data and the same generator, with
\* command lines that differ at most in --debug and --chains.
PairArgv ==
    {Merge(Merge(b0, b1), Merge(b2, b3)) :
        b0 \in Single("steps", {MaxSteps}),
        b1 \in {EmptyArgv} \cup Single("seed", {0}),
        b2 \in {EmptyArgv} \cup Single("runtime", {1}) \cup Single("lugsail", {105}),
        b3 \in {EmptyArgv} \cup Single("chains", {MaxChains})
               \cup Single("debug", {1})
               \cup Pair("chains", {MaxChains}, "debug", {1})}
Without(f, S) == [o \in DOMAIN f \ S |-> f[o]]
SameRun(f, g) == Without(f, {"debug", "chains"}) = Without(g, {"debug", "chains"})

InitPair ==
    /\ argv \in [Runs -> PairArgv]
    /\ SameRun(argv[1], argv[2])
    /\ ncells = NumCells
    /\ annot = [core |-> TRUE, corrected |-> FALSE, cancer |-> 0]
    /\ fa_file = [c \in 1..ncells |-> 1]
    /\ pc = [r \in Runs |-> "start"]
    /\ args = Idle
    /\ sampler = Idle
    /\ pool = Idle
    /\ chains = Idle
    /\ results = Idle
    /\ clock = 0
    /\ stream \in StreamTables(ncells)

SpecPair == InitPair /\ [][Next]_vars

\* ------------------------------------------------------------------ claims
InUnit(v) == 0 <= v /\ v <= One
Built(r) == sampler[r] # <<>>

\* C1: a configuration carrying an invalid value is rejected by parse_args
\* before the model is constructed, so that nothing outside its range
\* reaches the sampler: every probability the constructed sampler holds
\* (burn_in, the update probabilities, split_merge_prob, both
\* split_merge_ratios, the fixed FN / FP) is within [0,1], and a supplied
\* lugsail cutoff it holds is within [1,1.5].
C1_InvalidRejected ==
    \A r \in Runs :
        /\ pc[r] = "rejected" => ~Built(r)
        /\ Built(r) =>
             LET s == sampler[r][1] IN
             /\ InUnit(s.run_var.burn_in)
             /\ InUnit(s.mcmc.sm_prob)
             /\ InUnit(s.mcmc.dpa_prob)
             /\ InUnit(s.mcmc.error_prob)
             /\ \A i \in DOMAIN s.mcmc.sm_ratios : InUnit(s.mcmc.sm_ratios[i])
             /\ \A i \in DOMAIN s.model.errors : InUnit(s.model.errors[i])
             /\ "lugsail" \in DOMAIN argv[r] =>
                    One <= s.run_var.lugsail /\ s.run_var.lugsail <= PSRFMax

Unconfigured(a) == a.DPa_a < 0 \/ a.DPa_b < 0

\* C4: with no concentration prior configured and an annotation without
\* the Corrected column (its other columns present), main does not fail and
\* constructs the model with the prior (sqrt(data.shape[0]), 1); with both
\* components configured non-negative the model gets the configured pair.
C4_PriorFallback ==
    \A r \in Runs :
        pc[r] \notin {"off", "start", "rejected", "parsed"} /\ annot.core =>
            LET a == args[r][1] IN
            /\ Unconfigured(a) /\ ~annot.corrected =>
                  /\ pc[r] # "failed"
                  /\ Built(r)
                  /\ sampler[r][1].model.DP_alpha = [a |-> Sqrt(ncells), b |-> Num(One)]
            /\ ~Unconfigured(a) =>
                  /\ Built(r)
                  /\ sampler[r][1].model.DP_alpha = [a |-> Num(a.DPa_a), b |-> Num(a.DPa_b)]

C4_Witness ==
    /\ pc[1] = "ready"
    /\ Unconfigured(args[1][1])
    /\ ~annot.corrected
    /\ ncells = 36
    /\ sampler[1][1].model.DP_alpha.a = Sqrt(36)

\* C10: the Gamma(a, b) prior handed to the model has a > 0 and b > 0,
\* whichever of the three sources it comes from.
C10_PriorPositive ==
    \A r \in Runs :
        Built(r) =>
            /\ Positive(sampler[r][1].model.DP_alpha.a)
            /\ Positive(sampler[r][1].model.DP_alpha.b)

Configured(r, o) == IF o \in DOMAIN argv[r] THEN argv[r][o] ELSE Default(o)
Live(r) == {i \in DOMAIN chains[r] : chains[r][i].status # "INITIALIZING"}

\* C2: in every state of a run of an accepted configuration, FN and FP
\* are within [0,1], every entry of every cluster parameter is within
\* [0,1], and alpha is > 0.
C2_RatesInRange ==
    \A r \in Runs : \A i \in Live(r) :
        LET c == chains[r][i] IN
        /\ InUnit(c.FN)
        /\ InUnit(c.FP)
        /\ \A k \in DOMAIN c.cl : InUnit(c.cl[k].theta)
        /\ c.alpha > 0

\* C3: with both fixed rates supplied (>= 0) the fixed-rate model is
\* constructed and the sampler gets error_prob 0 whatever was configured,
\* no recorded step is an error-rate update and every recorded state holds
\* the supplied FN and FP; otherwise the learned-rate model is constructed
\* and the configured error_update_prob is handed over unchanged.
C3_FixedErrors ==
    \A r \in Runs :
        Built(r) =>
            LET s == sampler[r][1] IN
            IF Configured(r, "falsePositive") >= 0 /\ Configured(r, "falseNegative") >= 0
            THEN /\ s.model.kind = "CRP"
                 /\ s.mcmc.error_prob = 0
                 /\ \A i \in DOMAIN chains[r] :
                       \A k \in DOMAIN chains[r][i].trace :
                          /\ chains[r][i].trace[k].by # "error_update"
                          /\ chains[r][i].trace[k].FN = Configured(r, "falseNegative")
                          /\ chains[r][i].trace[k].FP = Configured(r, "falsePositive")
            ELSE /\ s.model.kind = "CRP_errors_learning"
                 /\ s.mcmc.error_prob = Configured(r, "error_update_prob")

C3_Witness ==
    /\ pc[1] = "done"
    /\ sampler[1][1].model.kind = "CRP"
    /\ Configured(1, "error_update_prob") > 0
    /\ Len(chains[1][1].trace) = MaxSteps
    /\ chains[1][1].trace[MaxSteps].by = "conc_update"

RECURSIVE SumSizes(_, _)
SumSizes(cl, S) ==
    IF S = {} THEN 0
    ELSE LET k == CHOOSE x \in S : TRUE IN cl[k].n + SumSizes(cl, S \ {k})

\* C6: after every step of every chain each of the N cells is assigned to
\* exactly one cluster, every label is the id of an occupied cluster, no
\* occupied cluster is empty, and the cluster sizes sum to N.
C6_Partition ==
    \A r \in Runs : \A i \in Live(r) :
        LET c == chains[r][i] IN
        /\ DOMAIN c.z = 1..ncells
        /\ \A x \in DOMAIN c.z : c.z[x] \in DOMAIN c.cl
        /\ \A k \in DOMAIN c.cl :
              /\ c.cl[k].n >= 1
              /\ c.cl[k].n = Cardinality({x \in DOMAIN c.z : c.z[x] = k})
        /\ SumSizes(c.cl, DOMAIN c.cl) = ncells
        /\ \A j \in DOMAIN c.trace :
              \A x \in DOMAIN c.trace[j].z : c.trace[j].z[x] \in DOMAIN c.trace[j].theta

C6_Witness ==
    \E i \in Live(1) :
        LET t == chains[1][i].trace IN
        /\ Len(t) = 2
        /\ t[1].by = "gibbs"
        /\ t[2].by = "split_merge"
        /\ Cardinality(DOMAIN t[1].theta) = 3
        /\ Cardinality(DOMAIN t[2].theta) = 2

\* C7: with a fixed assignment supplied, z equals the supplied assignment
\* in every recorded state of every chain.
C7_FixedAssignment ==
    \A r \in Runs :
        Configured(r, "fixed_assignment") = 1 =>
            \A i \in Live(r) :
                /\ chains[r][i].z = fa_file
                /\ \A j \in DOMAIN chains[r][i].trace : chains[r][i].trace[j].z = fa_file

C7_Witness ==
    /\ Configured(1, "fixed_assignment") = 1
    /\ pc[1] = "done"
    /\ \E x, y \in DOMAIN fa_file : fa_file[x] # fa_file[y]
    /\ LET t == chains[1][1].trace IN
       /\ Len(t) = 2
       /\ t[1].by = "gibbs"
       /\ t[2].by = "split_merge"
       /\ t[1].theta # t[2].theta

\* The state part and the step part of C8.
C8_State ==
    \A r \in Runs :
        "lugsail" \notin DOMAIN argv[r] /\ pool[r] # <<>> =>
            /\ ~pool[r][1].converged
            /\ \A i \in DOMAIN chains[r] :
                  LET c == chains[r][i] IN
                  IF Configured(r, "runtime") > 0
                  THEN c.status = "TERMINATED" =>
                          c.stop = "runtime" /\ c.stop_at >= pool[r][1].run_var.budget
                  ELSE /\ c.step <= Configured(r, "steps")
                       /\ c.status = "TERMINATED" =>
                             c.stop = "steps" /\ c.step = Configured(r, "steps")
C8_Step ==
    \A r \in Runs :
        "lugsail" \notin DOMAIN argv[r] =>
            \A i \in DOMAIN chains[r] \cap DOMAIN chains'[r] :
                LET c == chains[r][i]
                    c2 == chains'[r][i]
                IN /\ \/ c2.status = c.status
                      \/ c.status = "INITIALIZING" /\ c2.status = "RUNNING"
                      \/ c.status = "RUNNING" /\ c2.status = "TERMINATED"
                   /\ c2.step # c.step =>
                         /\ c.status = "RUNNING" /\ c2.status = "RUNNING"
                         /\ IF Configured(r, "runtime") > 0
                            THEN clock < pool[r][1].run_var.budget
                            ELSE c.step < Configured(r, "steps")
\* C8: with the convergence diagnostic left at its default (disabled), a
\* chain goes INITIALIZING -> RUNNING -> TERMINATED, takes a step only
\* while its budget is not spent, and is TERMINATED only by its budget:
\* the runtime when one is configured, the step count otherwise.
C8_Termination == [](C8_State) /\ [][C8_Step]_vars

C8_Witness ==
    /\ "lugsail" \notin DOMAIN argv[1]
    /\ Configured(1, "runtime") > 0
    /\ Configured(1, "steps") = 1
    /\ pc[1] = "done"
    /\ chains[1][1].stop = "runtime"
    /\ chains[1][1].step = MaxSteps

SameCommand == argv[1] = argv[2]
BothDone == pc[1] = "done" /\ pc[2] = "done"
FixedSeed(r) == Configured(r, "seed") >= 0
StepBound(r) == "runtime" \notin DOMAIN argv[r] /\ "lugsail" \notin DOMAIN argv[r]
ChainCount(r) == IF Configured(r, "debug") = 1 THEN 1 ELSE Configured(r, "chains")

DebugPair(r1, r2) ==
    /\ Configured(r1, "debug") = 1
    /\ Configured(r2, "debug") = 0
    /\ Configured(r2, "chains") = 1
    /\ FixedSeed(r1)
    /\ pc[r1] = "done" /\ pc[r2] = "done"
OneChain(r) ==
    Configured(r, "debug") = 1 /\ pool[r] # <<>> =>
        /\ pool[r][1].n = 1
        /\ pool[r][1].debug = 1
        /\ Len(chains[r]) = 1

=============================================================================
